---- MODULE Spec2Model ----
(***************************************************************************)
(* The sorting component of FooTable (FooTable.Sorting.js): the per-column *)
(* sort state, the sort controller (_sort, predraw, preajax) and the       *)
(* header UI (draw, _generate, destroy, _onSortClicked).                   *)
(***************************************************************************)
EXTENDS Integers, Sequences, FiniteSets, Bags, TLC

(***************************************************************************)
(* JavaScript values.  A value carries its type tag, so that the checks    *)
(* the code makes (is.type(x, 'string'), x == null, !x) are computed.      *)
(* A column object is a reference to an entry of columns.array.            *)
(***************************************************************************)
Str(x) == [t |-> "string", s |-> x, n |-> 0]
Num(k) == [t |-> "number", s |-> "", n |-> k]
Col(k) == [t |-> "column", s |-> "", n |-> k]
Null == [t |-> "null", s |-> "", n |-> 0]
Undefined == [t |-> "undefined", s |-> "", n |-> 0]

\* x == null in JavaScript: true of null and of undefined.
IsNullish(v) == v.t \in {"null", "undefined"}

\* !x in JavaScript.
Falsy(v) ==
    \/ IsNullish(v)
    \/ (v.t = "boolean" /\ v.n = 0)
    \/ (v.t = "string" /\ v.s = "")
    \/ (v.t = "number" /\ v.n = 0)

\* FooTable.is.type(x, 'string')
IsString(v) == v.t = "string"

ASC == Str("ASC")
DESC == Str("DESC")

(***************************************************************************)
(* The sorters of FooTable.Defaults.  A text value is the sequence of its  *)
(* UTF-16 code units, a number value is an integer.                        *)
(***************************************************************************)
\* The lower case of one code unit, as code units.  The cased characters of
\* Basic Latin, Latin-1 Supplement and Latin Extended-A (code units below 384)
\* are mapped; the text values of the model stay within them.
LowerCaseUnit(c) ==
    IF (c >= 65 /\ c <= 90) \/ (c >= 192 /\ c <= 214) \/ (c >= 216 /\ c <= 222)
    THEN <<c + 32>>
    ELSE IF c = 304 THEN <<105, 775>>
    ELSE IF c = 376 THEN <<255>>
    ELSE IF /\ (c >= 256 /\ c <= 303) \/ (c >= 306 /\ c <= 311) \/ (c >= 330 /\ c <= 375)
            /\ c % 2 = 0
    THEN <<c + 1>>
    ELSE IF /\ (c >= 313 /\ c <= 328) \/ (c >= 377 /\ c <= 382)
            /\ c % 2 = 1
    THEN <<c + 1>>
    ELSE <<c>>

\* String.prototype.toLowerCase
RECURSIVE toLowerCase(_)
toLowerCase(str) ==
    IF str = <<>> THEN <<>>
    ELSE LowerCaseUnit(Head(str)) \o toLowerCase(Tail(str))

\* a < b on strings: the first differing code unit decides, a proper prefix is less.
RECURSIVE StringLess(_, _)
StringLess(a, b) ==
    IF b = <<>> THEN FALSE
    ELSE IF a = <<>> THEN TRUE
    ELSE IF Head(a) # Head(b) THEN Head(a) < Head(b)
    ELSE StringLess(Tail(a), Tail(b))

sorters_text(a, b) ==
    LET la == toLowerCase(a)
        lb == toLowerCase(b)
    IN  IF la = lb THEN 0
        ELSE IF StringLess(la, lb) THEN -1
        ELSE 1

\* The number sorter with its operands exchanged.
sorters_number_exchanged(a, b) == b - a

sorters_number(a, b) == a - b

\* A sorter a column definition supplies itself: function(a, b){ return b - a; }
reversed(a, b) == b - a

\* The sorters registered in options.sorters.
OwnSorters == {"text", "number"}

\* The functions every object inherits from Object.prototype.
ObjectPrototypeFunctions ==
    { "constructor", "hasOwnProperty", "isPrototypeOf", "propertyIsEnumerable",
      "toLocaleString", "toString", "valueOf", "__defineGetter__",
      "__defineSetter__", "__lookupGetter__", "__lookupSetter__" }

\* options.sorters[definition.type] || options.sorters.text, by the name of the
\* function found: a sorter registered under the type, else what the sorters
\* object inherits under that name (a function of Object.prototype, or
\* Object.prototype itself for "__proto__"), else the text sorter.
SorterFor(type) ==
    IF type \in OwnSorters THEN type
    ELSE IF type \in ObjectPrototypeFunctions THEN "Object.prototype." \o type
    ELSE IF type = "__proto__" THEN "Object.prototype"
    ELSE "text"

\* column.sorter(a, b) for the sorters that compare values.  What Object.prototype
\* lends a column whose type names one of its members is not a comparator and
\* is not applied here.
Sorter(name, a, b) ==
    CASE name = "number" -> sorters_number(a, b)
      [] name = "text" -> sorters_text(a, b)
      [] name = "reversed" -> reversed(a, b)

(***************************************************************************)
(* The table the component is attached to: three columns and three rows.   *)
(* Rows 1 and 3 tie on "name" ("Bob", "bob"), rows 2 and 3 tie on "price", *)
(* all rows tie on "note".                                                 *)
(***************************************************************************)
Bool(b) == [t |-> "boolean", s |-> "", n |-> IF b THEN 1 ELSE 0]

\* A function, by its name.
Fn(name) == [t |-> "function", s |-> name, n |-> 0]

\* A column definition as the column constructor receives it.
Definition(name, type, sorter, direction, sortable, sorted) ==
    [name |-> name, type |-> type, sorter |-> sorter, direction |-> direction,
     sortable |-> sortable, sorted |-> sorted]

\* The column definitions of the table: none declares a sort; "price" and "note"
\* both declare a direction and are both marked sorted; only "note", which is
\* not sortable, declares a direction (not a valid one) and is marked sorted;
\* "name" is marked sorted and declares a direction that is not a string, and
\* "price" supplies its own sorter.
Definitions ==
    { << Definition("name", "text", Undefined, Undefined, Undefined, Undefined),
         Definition("price", "number", Undefined, Undefined, Bool(TRUE), Undefined),
         Definition("note", "html", Undefined, Undefined, Bool(FALSE), Bool(FALSE)) >>,
      << Definition("name", "text", Undefined, Undefined, Undefined, Undefined),
         Definition("price", "number", Undefined, DESC, Bool(TRUE), Bool(TRUE)),
         Definition("note", "html", Undefined, Str("sideways"), Bool(FALSE), Bool(TRUE)) >>,
      << Definition("name", "text", Undefined, Num(1), Undefined, Undefined),
         Definition("price", "number", Undefined, Undefined, Bool(TRUE), Undefined),
         Definition("note", "html", Undefined, Str("sideways"), Bool(FALSE), Bool(TRUE)) >>,
      << Definition("name", "text", Undefined, Num(1), Undefined, Bool(TRUE)),
         Definition("price", "number", Fn("reversed"), Undefined, Bool(TRUE), Undefined),
         Definition("note", "html", Undefined, Undefined, Bool(FALSE), Bool(FALSE)) >> }

\* options.sorting.column and options.sorting.direction as the user supplies them.
ConfigOptions ==
    { [column |-> Null, direction |-> Null],
      [column |-> Str("name"), direction |-> DESC],
      [column |-> Str("nosuch"), direction |-> Str("sideways")] }

\* cells[k].value of each row: text values as code units, numbers as integers.
CellValues ==
    << << <<66, 111, 98>>, 3, <<110>> >>,
       << <<97, 108, 105, 99, 101>>, 1, <<110>> >>,
       << <<98, 111, 98>>, 1, <<110>> >> >>

RowIds == 1..Len(CellValues)

\* row.cells[column.index].value; column.index is zero-based.
CellValue(row, index) == CellValues[row][index + 1]

\* The orders the row array may be in when the component is constructed.
InitialRows == { <<3, 1, 2>> }

(***************************************************************************)
(* FooTable.Sorting.ctor_column: the sort fields of a column and the       *)
(* classes of its header cell.                                             *)
(***************************************************************************)
\* FooTable.checkFnPropValue(value, def): the value when it is a function, else
\* the default; by the name of the function.
checkFnPropValue(value, def) == IF value.t = "function" THEN value.s ELSE def

ctor_column(definition, index, enabled) ==
    LET sortable == IF definition.sortable.t = "boolean" THEN definition.sortable.n = 1 ELSE TRUE
    IN  [ column |->
            [ name |-> definition.name,
              index |-> index,
              sorter |-> checkFnPropValue(definition.sorter, SorterFor(definition.type)),
              direction |-> IF IsString(definition.direction) THEN definition.direction ELSE Null,
              sortable |-> sortable,
              sorted |-> IF definition.sorted.t = "boolean" THEN definition.sorted.n = 1 ELSE FALSE ],
          header |->
            [ sortable |-> enabled /\ sortable,
              asc |-> FALSE,
              desc |-> FALSE,
              icons |-> <<>> ] ]

(***************************************************************************)
(* The state of a table.  The operations of the component are written as   *)
(* functions of a state record s with these fields, so that a handler is   *)
(* the composition of the calls it makes.                                  *)
(*   o           options.sorting: enabled, column, direction               *)
(*   ajaxEnabled options.ajaxEnabled                                       *)
(*   columns     columns.array, each with its sort fields                  *)
(*   rows        rows.array, as row ids                                    *)
(*   headers     the header cell of each column: whether it carries the    *)
(*               classes footable-sortable, footable-asc, footable-desc    *)
(*               and the sort icons it holds, each the set of its classes  *)
(*   handlers    how many times _onSortClicked is bound to the table       *)
(*   tableClass  the table carries the class footable-sorting              *)
(*   data        the RequestData of the latest request that was built      *)
(*   jQuery      the jQuery the page loads, which the component does not   *)
(*               choose: before 3.0 the callbacks of then() run inside the *)
(*               call that resolves the promise, from 3.0 on they run      *)
(*               later, each on a timer of its own                         *)
(***************************************************************************)
VARIABLES o, ajaxEnabled, columns, rows, headers, handlers, tableClass, data,
          jQuery, pending, phase, last

vars == <<o, ajaxEnabled, columns, rows, headers, handlers, tableClass, data,
          jQuery, pending, phase, last>>

State ==
    [ o |-> o, ajaxEnabled |-> ajaxEnabled, columns |-> columns, rows |-> rows,
      headers |-> headers, handlers |-> handlers, tableClass |-> tableClass,
      data |-> data, jQuery |-> jQuery ]

JQueryVersions == {"1.x/2.x", "3.x"}

\* promise.then(callback) runs the callback on a timer after the promise is resolved.
ThenIsDeferred(s) == s.jQuery = "3.x"

ColumnIds(s) == 1..Len(s.columns)

\* columns.first(predicate) for the predicates the component uses; null when none matches.
first(s, matching) ==
    IF matching = {} THEN Null
    ELSE Col(CHOOSE k \in matching : \A j \in matching : k <= j)

\* columns.get(column): by column object, by name or by index; null otherwise.
get(s, column) ==
    IF column.t = "column" THEN column
    ELSE IF column.t = "string" THEN first(s, {k \in ColumnIds(s) : s.columns[k].name = column.s})
    ELSE IF column.t = "number" THEN first(s, {k \in ColumnIds(s) : s.columns[k].index = column.n})
    ELSE Null

\* a || b
OrElse(a, b) == IF Falsy(a) THEN b ELSE a

(***************************************************************************)
(* FooTable.Sorting._direction                                             *)
(***************************************************************************)
\* _direction that accepts any string.
_direction_any_string(str) == IF IsString(str) THEN str ELSE ASC

_direction(str) == IF IsString(str) /\ (str = ASC \/ str = DESC) THEN str ELSE ASC

(***************************************************************************)
(* FooTable.Sorting.preajax: fills the request data.  Reading .name of a   *)
(* null column raises a TypeError, reported in threw.                      *)
(***************************************************************************)
preajax(s) ==
    IF s.o.enabled = FALSE THEN [state |-> s, threw |-> FALSE]
    ELSE IF IsNullish(s.o.column) THEN [state |-> s, threw |-> TRUE]
    ELSE [ state |->
             [s EXCEPT !.data =
                [ sortColumn |-> IF s.o.column.t = "column"
                                 THEN Str(s.columns[s.o.column.n].name)
                                 ELSE Undefined,
                  sortDirection |-> s.o.direction ]],
           threw |-> FALSE ]

(***************************************************************************)
(* FooTable.Sorting.predraw: sorts rows.array with the column's sorter.    *)
(***************************************************************************)
\* The comparison function without the swap of its operands for a descending sort.
Compare_ascending_only(s, a, b) ==
    LET column == s.columns[s.o.column.n]
    IN  Sorter(column.sorter, CellValue(a, column.index), CellValue(b, column.index))

\* The comparison function handed to Array.prototype.sort.
Compare(s, a, b) ==
    LET column == s.columns[s.o.column.n]
    IN  IF s.o.direction = ASC
        THEN Sorter(column.sorter, CellValue(a, column.index), CellValue(b, column.index))
        ELSE Sorter(column.sorter, CellValue(b, column.index), CellValue(a, column.index))

\* The arrays that hold the elements of an array, each as often as it does.
Arrangements(array) ==
    {[i \in 1..Len(array) |-> array[f[i]]] : f \in Permutations(1..Len(array))}

\* No element of the array is behind one the comparison function puts it before.
IsSorted(s, array) ==
    \A i \in 1..Len(array), j \in 1..Len(array) :
        i < j => Compare(s, array[i], array[j]) <= 0

\* array.sort(compare): the orders the call may leave the array in.  The
\* elements are in the order of the comparison function; the order of elements
\* that compare equal is the engine's choice, since the sort need not be stable
\* (V8 before 7.0 reorders equal elements of arrays of more than ten).
ArraySort(s, array) == {sorted \in Arrangements(array) : IsSorted(s, sorted)}

\* predraw without the return on remote data.
predraw_sorts_remote(s) ==
    IF s.o.enabled = FALSE \/ Falsy(s.o.column) \/ Falsy(s.o.direction)
    THEN {s}
    ELSE {[s EXCEPT !.rows = sorted] : sorted \in ArraySort(s, s.rows)}

\* The states predraw may leave: one for each order the sort may leave the rows in.
predraw(s) ==
    IF \/ s.o.enabled = FALSE
       \/ s.ajaxEnabled = TRUE
       \/ Falsy(s.o.column)
       \/ Falsy(s.o.direction)
    THEN {s}
    ELSE {[s EXCEPT !.rows = sorted] : sorted \in ArraySort(s, s.rows)}

(***************************************************************************)
(* FooTable.Sorting.draw: the sort classes of the header cells and of      *)
(* their icons.                                                            *)
(***************************************************************************)
SortIconClasses == {"fooicon-sort", "fooicon-sort-asc", "fooicon-sort-desc"}

\* $icons.filter('.fooicon').removeClass(classes)
RemoveIconClasses(icons, classes) ==
    [i \in 1..Len(icons) |->
        IF "fooicon" \in icons[i] THEN icons[i] \ classes ELSE icons[i]]

\* $icons.filter('.fooicon').addClass(class)
AddIconClass(icons, class) ==
    [i \in 1..Len(icons) |->
        IF "fooicon" \in icons[i] THEN icons[i] \cup {class} ELSE icons[i]]

draw(s) ==
    IF s.o.enabled = FALSE \/ Falsy(s.o.column) \/ Falsy(s.o.direction) THEN s
    ELSE
      LET active == s.o.column.n
          asc == s.o.direction = ASC
          \* $sortable.removeClass('footable-asc footable-desc')
          \*     .children('.fooicon').removeClass('fooicon-sort fooicon-sort-asc fooicon-sort-desc')
          cleared == [k \in ColumnIds(s) |->
              IF s.headers[k].sortable
              THEN [s.headers[k] EXCEPT
                      !.asc = FALSE, !.desc = FALSE,
                      !.icons = RemoveIconClasses(@, SortIconClasses)]
              ELSE s.headers[k]]
          \* $sortable.not($active).children('.fooicon').addClass('fooicon-sort')
          reset == [k \in ColumnIds(s) |->
              IF cleared[k].sortable /\ k # active
              THEN [cleared[k] EXCEPT !.icons = AddIconClass(@, "fooicon-sort")]
              ELSE cleared[k]]
          \* $active.addClass(direction == 'ASC' ? 'footable-asc' : 'footable-desc')
          \*     .children('.fooicon').addClass(direction == 'ASC' ? 'fooicon-sort-asc' : 'fooicon-sort-desc')
          marked == [reset EXCEPT ![active] =
              [@ EXCEPT !.asc = @ \/ asc, !.desc = @ \/ ~asc,
                        !.icons = AddIconClass(@, IF asc THEN "fooicon-sort-asc"
                                                  ELSE "fooicon-sort-desc")]]
      IN  [s EXCEPT !.headers = marked]

(***************************************************************************)
(* FooTable.Sorting._generate: resolves the initial sort from the options, *)
(* sets the column directions, appends the sort icons and binds the click  *)
(* handler.  options.sorting is the object the component keeps as o.       *)
(***************************************************************************)
\* $('<span/>', {'class': 'fooicon fooicon-sort'})
NewIcon == {"fooicon", "fooicon-sort"}

\* _generate that sets the direction of the sorted column and leaves the others alone.
_generate_keeps_others(s) ==
    LET column == OrElse(get(s, s.o.column),
                         first(s, {k \in ColumnIds(s) : s.columns[k].sorted}))
        direction ==
            IF IsNullish(column) THEN Null
            ELSE IF IsNullish(s.o.direction)
                 THEN (IF IsNullish(s.columns[column.n].direction)
                       THEN ASC
                       ELSE s.columns[column.n].direction)
                 ELSE s.o.direction
    IN  [s EXCEPT
           !.o = [@ EXCEPT !.column = column, !.direction = direction],
           !.columns = [k \in ColumnIds(s) |->
              IF Col(k) = column
              THEN [s.columns[k] EXCEPT !.direction = direction]
              ELSE s.columns[k]],
           !.tableClass = TRUE,
           !.headers = [k \in ColumnIds(s) |->
              IF s.columns[k].sortable = TRUE
              THEN [s.headers[k] EXCEPT !.icons = Append(@, NewIcon)]
              ELSE s.headers[k]],
           !.handlers = @ + 1]

\* _generate that prefers the column's own direction to options.sorting.direction.
_generate_prefers_column(s) ==
    LET column == OrElse(get(s, s.o.column),
                         first(s, {k \in ColumnIds(s) : s.columns[k].sorted}))
        direction ==
            IF IsNullish(column) THEN Null
            ELSE IF IsNullish(s.columns[column.n].direction)
                 THEN (IF IsNullish(s.o.direction) THEN ASC ELSE s.o.direction)
                 ELSE s.columns[column.n].direction
    IN  [s EXCEPT
           !.o = [@ EXCEPT !.column = column, !.direction = direction],
           !.columns = [k \in ColumnIds(s) |->
              [s.columns[k] EXCEPT !.direction = IF Col(k) = column THEN direction ELSE Null]],
           !.tableClass = TRUE,
           !.headers = [k \in ColumnIds(s) |->
              IF s.columns[k].sortable = TRUE
              THEN [s.headers[k] EXCEPT !.icons = Append(@, NewIcon)]
              ELSE s.headers[k]],
           !.handlers = @ + 1]

_generate(s) ==
    LET column == OrElse(get(s, s.o.column),
                         first(s, {k \in ColumnIds(s) : s.columns[k].sorted}))
        direction ==
            IF IsNullish(column) THEN Null
            ELSE IF IsNullish(s.o.direction)
                 THEN (IF IsNullish(s.columns[column.n].direction)
                       THEN ASC
                       ELSE s.columns[column.n].direction)
                 ELSE s.o.direction
    IN  [s EXCEPT
           !.o = [@ EXCEPT !.column = column, !.direction = direction],
           !.columns = [k \in ColumnIds(s) |->
              [s.columns[k] EXCEPT !.direction = IF Col(k) = column THEN direction ELSE Null]],
           !.tableClass = TRUE,
           !.headers = [k \in ColumnIds(s) |->
              IF s.columns[k].sortable = TRUE
              THEN [s.headers[k] EXCEPT !.icons = Append(@, NewIcon)]
              ELSE s.headers[k]],
           !.handlers = @ + 1]

(***************************************************************************)
(* FooTable.Sorting.destroy: unbinds the click handler and, on the headers *)
(* that carry footable-sortable, removes that class and the spans of class *)
(* "direction".                                                            *)
(***************************************************************************)
\* How many of a header's icons a class selector matches: find('span.' + class).
IconsOfClass(header, class) ==
    Cardinality({i \in 1..Len(header.icons) : class \in header.icons[i]})

destroy(s) ==
    IF s.o.enabled = FALSE THEN s
    ELSE [s EXCEPT
            !.handlers = 0,
            !.headers = [k \in ColumnIds(s) |->
               IF s.headers[k].sortable
               THEN [s.headers[k] EXCEPT
                       !.sortable = FALSE,
                       !.icons = SelectSeq(@, LAMBDA icon : "direction" \notin icon)]
               ELSE s.headers[k]]]

(***************************************************************************)
(* The table's refresh, FooTable.Instance.update, in its two halves: the   *)
(* request runs preajax when the data is remote and returns a promise; the *)
(* completion runs predraw and draw and then resolves the promise.         *)
(***************************************************************************)
update_request(s) ==
    IF s.ajaxEnabled = TRUE THEN preajax(s) ELSE [state |-> s, threw |-> FALSE]

update_complete(s) == {draw(sorted) : sorted \in predraw(s)}

(***************************************************************************)
(* FooTable.Sorting._sort.  The listeners of change.ft.sorting are an      *)
(* input: they leave the sorter alone ("pass"), call preventDefault        *)
(* ("cancel"), or assign the sorter's column and direction ("modify").     *)
(***************************************************************************)
\* new FooTable.Sorter(column, direction)
NewSorter(column, direction) == [column |-> column, direction |-> direction]

NoSorter == NewSorter(Null, Null)

\* What a modifying listener assigns to the sorter it is handed.
ModifiedSorter == NewSorter(Str("note"), Str("sideways"))

Listeners == {"pass", "cancel", "modify"}

\* ft.raise(name, [sorter]): the event as its listeners see it.
Event(name, sorter, s) ==
    [ name |-> name, sorter |-> sorter,
      directions |-> [k \in ColumnIds(s) |-> s.columns[k].direction],
      rows |-> s.rows ]

\* sort_then that sets the direction of the sorted column and leaves the others alone.
sort_then_keeps_others(s, sorter) ==
    LET updated == [s EXCEPT !.columns = [k \in ColumnIds(s) |->
                      IF Col(k) = s.o.column
                      THEN [s.columns[k] EXCEPT !.direction = s.o.direction]
                      ELSE s.columns[k]]]
    IN  [state |-> updated, events |-> <<Event("changed.ft.sorting", sorter, updated)>>]

\* sort_then that sets the directions from the sorter of its own call.
sort_then_uses_sorter(s, sorter) ==
    LET updated == [s EXCEPT !.columns = [k \in ColumnIds(s) |->
                      [s.columns[k] EXCEPT
                         !.direction = IF Col(k) = get(s, sorter.column)
                                       THEN _direction(sorter.direction) ELSE Null]]]
    IN  [state |-> updated, events |-> <<Event("changed.ft.sorting", sorter, updated)>>]

\* The callback _sort chains on the refresh: the column directions, then changed.ft.sorting.
sort_then(s, sorter) ==
    LET updated == [s EXCEPT !.columns = [k \in ColumnIds(s) |->
                      [s.columns[k] EXCEPT
                         !.direction = IF Col(k) = s.o.column THEN s.o.direction ELSE Null]]]
    IN  [state |-> updated, events |-> <<Event("changed.ft.sorting", sorter, updated)>>]

\* _sort with the commit moved before the notification: a cancelled call keeps it.
_sort_commits_first(s, column, direction, redraw, listener) ==
    LET sorter == NewSorter(get(s, column), _direction(direction))
        committed == [s EXCEPT !.o = [@ EXCEPT !.column = get(s, sorter.column),
                                               !.direction = _direction(sorter.direction)]]
        requested == update_request(committed)
    IN  [state |-> IF listener = "cancel" THEN committed ELSE requested.state,
         outcome |-> IF listener = "cancel" THEN "resolved"
                     ELSE IF requested.threw THEN "threw" ELSE "pending",
         cancelled |-> listener = "cancel",
         sorter |-> sorter,
         events |-> <<Event("change.ft.sorting", sorter, s)>>]

\* _sort that commits the sorter as it was created, whatever the listeners assigned to it.
_sort_commits_created(s, column, direction, redraw, listener) ==
    LET created == NewSorter(get(s, column), _direction(direction))
        sorter == IF listener = "modify" THEN ModifiedSorter ELSE created
        change == Event("change.ft.sorting", sorter, s)
        committed == [s EXCEPT !.o = [@ EXCEPT !.column = get(s, created.column),
                                               !.direction = _direction(created.direction)]]
        requested == update_request(committed)
    IN  IF listener = "cancel"
        THEN [state |-> s, outcome |-> "resolved", cancelled |-> TRUE,
              sorter |-> sorter, events |-> <<change>>]
        ELSE [state |-> requested.state,
              outcome |-> IF requested.threw THEN "threw" ELSE "pending",
              cancelled |-> FALSE, sorter |-> sorter, events |-> <<change>>]

\* outcome: "resolved" (cancelled, or done without a redraw and the callback
\* has run), "queued" (done without a redraw, the callback waits on its timer),
\* "pending" (the refresh was requested and is awaited), "threw" (an error left
\* _sort).
_sort(s, column, direction, redraw, listener) ==
    LET created == NewSorter(get(s, column), _direction(direction))
        sorter == IF listener = "modify" THEN ModifiedSorter ELSE created
        \* the sorter is handed to the listeners by reference: the event holds it as they leave it
        change == Event("change.ft.sorting", sorter, s)
        committed == [s EXCEPT !.o = [@ EXCEPT !.column = get(s, sorter.column),
                                               !.direction = _direction(sorter.direction)]]
        requested == update_request(committed)
        then == sort_then(committed, sorter)
    IN  IF listener = "cancel"
        THEN [state |-> s, outcome |-> "resolved", cancelled |-> TRUE,
              sorter |-> sorter, events |-> <<change>>]
        ELSE IF ~redraw /\ ThenIsDeferred(s)
        THEN [state |-> committed, outcome |-> "queued", cancelled |-> FALSE,
              sorter |-> sorter, events |-> <<change>>]
        ELSE IF ~redraw
        THEN [state |-> then.state, outcome |-> "resolved", cancelled |-> FALSE,
              sorter |-> sorter, events |-> <<change>> \o then.events]
        ELSE IF requested.threw
        THEN [state |-> requested.state, outcome |-> "threw", cancelled |-> FALSE,
              sorter |-> sorter, events |-> <<change>>]
        ELSE [state |-> requested.state, outcome |-> "pending", cancelled |-> FALSE,
              sorter |-> sorter, events |-> <<change>>]

\* FooTable.Sorting.sort
sort(s, column, direction, listener) == _sort(s, column, direction, TRUE, listener)

(***************************************************************************)
(* FooTable.Sorting._onSortClicked on the header cell of column k.         *)
(***************************************************************************)
\* The click handler without the toggle.
ClickDirection_always_asc(header) == ASC

ClickDirection(header) ==
    IF header.asc \/ header.desc
    THEN (IF header.desc THEN ASC ELSE DESC)
    ELSE ASC

_onSortClicked(s, k, listener) ==
    _sort(s, Num(k - 1), ClickDirection(s.headers[k]), TRUE, listener)

(***************************************************************************)
(* The state machine.  pending is the bag of the promises whose work is    *)
(* not done, each with the sorter whose callback waits on it (kind "sort") *)
(* or with none (kind "update": a refresh the table itself asked for).  A  *)
(* promise is "awaited" while its refresh has not completed, and           *)
(* "resolved" while the callback then() queued at its resolution has not   *)
(* run.  last describes the latest operation: what it was, how it ended    *)
(* and the events it raised.                                               *)
(***************************************************************************)
Promise(kind, sorter, stage) == [kind |-> kind, sorter |-> sorter, stage |-> stage]

\* The most refreshes that may be awaited at once.
MaxPending == 1

\* The most sort icons a header cell may collect (one per _generate).
MaxIcons == 2

\* The column references and directions sort() is called with.
ColumnRefs == {Str("price"), Str("nosuch")}
DirectionArgs == {DESC, Str("sideways")}

\* The listeners that do not assign the sorter.
LifecycleListeners == {"pass", "cancel"}

Op(op, outcome) ==
    [ op |-> op, outcome |-> outcome, cancelled |-> FALSE,
      sorter |-> NoSorter, events |-> <<>>, header |-> 0, normalized |-> FALSE,
      repeat |-> FALSE, later |-> NoSorter ]

\* The fields of a state record become the next state.
Becomes(s) ==
    /\ o' = s.o
    /\ ajaxEnabled' = s.ajaxEnabled
    /\ columns' = s.columns
    /\ rows' = s.rows
    /\ headers' = s.headers
    /\ handlers' = s.handlers
    /\ tableClass' = s.tableClass
    /\ data' = s.data
    /\ jQuery' = s.jQuery

Init ==
    /\ \E enabled \in BOOLEAN, sorting \in ConfigOptions :
          o = [enabled |-> enabled, column |-> sorting.column, direction |-> sorting.direction]
    /\ ajaxEnabled \in BOOLEAN
    /\ \E definitions \in Definitions :
          /\ columns = [k \in 1..Len(definitions) |->
                          ctor_column(definitions[k], k - 1, o.enabled).column]
          /\ headers = [k \in 1..Len(definitions) |->
                          ctor_column(definitions[k], k - 1, o.enabled).header]
    /\ rows \in InitialRows
    /\ handlers = 0
    /\ tableClass = FALSE
    /\ data = [sortColumn |-> Null, sortDirection |-> Null]
    /\ jQuery \in JQueryVersions
    /\ pending = EmptyBag
    /\ phase = "constructed"
    /\ last = Op("ctor", "ok")

\* FooTable.Sorting.init
init ==
    /\ phase = "constructed"
    /\ Becomes(IF o.enabled = FALSE THEN State ELSE _generate(State))
    /\ phase' = "ready"
    /\ last' = [Op("init", "ok") EXCEPT
                  !.events = IF o.enabled = FALSE THEN <<>>
                             ELSE <<Event("sorting_init", NoSorter, _generate(State))>>]
    /\ UNCHANGED pending

\* FooTable.Sorting.reinit
reinit ==
    /\ phase = "ready"
    /\ \A k \in ColumnIds(State) : Len(headers[k].icons) < MaxIcons
    /\ Becomes(IF o.enabled = FALSE THEN destroy(State) ELSE _generate(destroy(State)))
    /\ last' = [Op("reinit", "ok") EXCEPT
                  !.events = IF o.enabled = FALSE THEN <<>>
                             ELSE <<Event("sorting_reinit", NoSorter, _generate(destroy(State)))>>]
    /\ UNCHANGED <<pending, phase>>

\* FooTable.Sorting.destroy, when the table is destroyed
destroyed ==
    /\ phase = "ready"
    /\ Becomes(destroy(State))
    /\ phase' = "destroyed"
    /\ last' = Op("destroy", "ok")
    /\ UNCHANGED pending

\* A refresh the table asks for itself (its first draw, a page change).
update ==
    /\ phase = "ready"
    /\ BagCardinality(pending) < MaxPending
    /\ LET requested == update_request(State)
       IN  /\ Becomes(requested.state)
           /\ pending' = IF requested.threw THEN pending
                         ELSE pending (+) SetToBag({Promise("update", NoSorter, "awaited")})
           /\ last' = Op("update", IF requested.threw THEN "threw" ELSE "pending")
    /\ UNCHANGED phase

\* A sort is in flight: its refresh is awaited or its callback has not run.
SortInFlight == \E promise \in BagToSet(pending) : promise.kind = "sort"

\* The record of a call of _sort.  later is kept for the calls made while the
\* refresh of an earlier sort is awaited: the sorter of the latest of them whose
\* refresh was requested; a cancelled call leaves it as it was.
Record(op, call, header, direction) ==
    [ op |-> op, outcome |-> call.outcome, cancelled |-> call.cancelled,
      sorter |-> call.sorter, events |-> call.events,
      header |-> header,
      normalized |-> direction # _direction(direction),
      repeat |-> /\ last.op \in {"complete", "callback"}
                 /\ last.sorter = call.sorter
                 /\ pending = EmptyBag
                 /\ call.outcome = "pending"
                 /\ call.state.o = o,
      later |-> IF ~SortInFlight THEN NoSorter
                ELSE IF call.cancelled THEN last.later
                ELSE IF call.outcome = "pending" THEN call.sorter
                ELSE NoSorter ]

\* What a call of _sort leaves behind: the state, the awaited refresh and the record of the call.
Sorted(op, call, header, direction) ==
    /\ Becomes(call.state)
    /\ pending' = IF call.outcome = "pending"
                  THEN pending (+) SetToBag({Promise("sort", call.sorter, "awaited")})
                  ELSE IF call.outcome = "queued"
                  THEN pending (+) SetToBag({Promise("sort", call.sorter, "resolved")})
                  ELSE pending
    /\ last' = Record(op, call, header, direction)
    /\ UNCHANGED phase

\* sort(column, direction) called by the program
Sort(column, direction, listener) ==
    /\ BagCardinality(pending) < MaxPending
    /\ Sorted("sort", sort(State, column, direction, listener), 0, direction)

\* a click on the header cell of column k, delegated to '.footable-sortable'
Click(k, listener) ==
    /\ BagCardinality(pending) < MaxPending
    /\ handlers > 0
    /\ headers[k].sortable
    /\ Sorted("click", _onSortClicked(State, k, listener), k,
              ClickDirection(headers[k]))

\* A refresh completes: predraw and draw, and the promise is resolved.  The
\* callback of the sort that awaits it runs in the same step, or is queued on a
\* timer when then() is deferred.
Complete(promise) ==
    /\ BagIn(promise, pending)
    /\ promise.stage = "awaited"
    /\ \E drawn \in update_complete(State) :
          LET queued == promise.kind = "sort" /\ ThenIsDeferred(State)
              then == IF promise.kind = "sort" /\ ~queued
                      THEN sort_then(drawn, promise.sorter)
                      ELSE [state |-> drawn, events |-> <<>>]
          IN  /\ Becomes(then.state)
              /\ last' = [Op(IF queued THEN "resolve" ELSE "complete", "resolved") EXCEPT
                            !.sorter = promise.sorter,
                            !.events = then.events,
                            !.repeat = /\ last.op \in {"sort", "click"}
                                       /\ last.repeat
                                       /\ promise.kind = "sort",
                            !.later = last.later]
              /\ pending' = IF queued
                            THEN (pending (-) SetToBag({promise}))
                                     (+) SetToBag({[promise EXCEPT !.stage = "resolved"]})
                            ELSE pending (-) SetToBag({promise})
    /\ UNCHANGED phase

\* The timer of a queued callback fires: the callback _sort chained with then() runs.
Callback(promise) ==
    /\ BagIn(promise, pending)
    /\ promise.stage = "resolved"
    /\ LET then == sort_then(State, promise.sorter)
       IN  /\ Becomes(then.state)
           /\ last' = [Op("callback", "resolved") EXCEPT
                         !.sorter = promise.sorter,
                         !.events = then.events,
                         !.later = last.later]
    /\ pending' = pending (-) SetToBag({promise})
    /\ UNCHANGED phase

\* The sort controller on a table that is constructed, initialized and then
\* used: the program of this specification sorts a table it has initialized.
Next ==
    \/ init
    \/ update
    \/ \E column \in ColumnRefs, direction \in DirectionArgs, listener \in LifecycleListeners :
          phase = "ready" /\ Sort(column, direction, listener)
    \/ \E k \in 1..Len(columns), listener \in LifecycleListeners : Click(k, listener)
    \/ \E promise \in BagToSet(pending) : Complete(promise)
    \/ \E promise \in BagToSet(pending) : Callback(promise)

Spec == Init /\ [][Next]_vars

\* The listeners of change.ft.sorting at work: sorts called on an initialized
\* table with listeners of every kind, those that assign the sorter included.
NextListeners ==
    \/ init
    \/ \E column \in ColumnRefs, direction \in DirectionArgs, listener \in Listeners :
          phase = "ready" /\ Sort(column, direction, listener)
    \/ \E promise \in BagToSet(pending) : Complete(promise)
    \/ \E promise \in BagToSet(pending) : Callback(promise)

SpecListeners == Init /\ [][NextListeners]_vars

\* The whole life of the component, reinit and destroy included, with sorts
\* called before init and after destroy as well; its sort calls are drawn from
\* fewer references and directions.  The program of this specification asks
\* for a refresh when none is awaited (sorts that overlap are SpecOverlap's);
\* init, reinit and destroy run at any time, a refresh awaited or not.
LifecycleRefs == {Col(3), Str("nosuch")}

NextLifecycle ==
    \/ init
    \/ reinit
    \/ destroyed
    \/ pending = EmptyBag /\ update
    \/ \E column \in LifecycleRefs, listener \in LifecycleListeners :
          pending = EmptyBag /\ Sort(column, DESC, listener)
    \/ \E k \in 1..Len(columns), listener \in LifecycleListeners :
          pending = EmptyBag /\ Click(k, listener)
    \/ \E promise \in BagToSet(pending) : Complete(promise)
    \/ \E promise \in BagToSet(pending) : Callback(promise)

SpecLifecycle == Init /\ [][NextLifecycle]_vars

\* Sorts that overlap: once a sort's refresh is awaited, further sorts are
\* called and clicked until MaxOverlap refreshes are awaited at once.
MaxOverlap == 2

OverlapRefs == {Str("name"), Str("nosuch")}
OverlapDirections == {DESC}

\* sort(column, direction) called while the refresh of an earlier sort is awaited
SortDuring(column, direction, listener) ==
    /\ SortInFlight
    /\ BagCardinality(pending) < MaxOverlap
    /\ Sorted("sort", sort(State, column, direction, listener), 0, direction)

\* a click on a header cell while the refresh of an earlier sort is awaited
ClickDuring(k, listener) ==
    /\ SortInFlight
    /\ BagCardinality(pending) < MaxOverlap
    /\ handlers > 0
    /\ headers[k].sortable
    /\ Sorted("click", _onSortClicked(State, k, listener), k,
              ClickDirection(headers[k]))

NextOverlap ==
    \/ init
    \/ \E column \in OverlapRefs, direction \in OverlapDirections,
             listener \in LifecycleListeners :
          phase = "ready" /\ Sort(column, direction, listener)
    \/ \E column \in OverlapRefs, direction \in OverlapDirections,
             listener \in LifecycleListeners :
          phase = "ready" /\ SortDuring(column, direction, listener)
    \/ \E k \in 1..Len(columns) : ClickDuring(k, "pass")
    \/ \E promise \in BagToSet(pending) : Complete(promise)
    \/ \E promise \in BagToSet(pending) : Callback(promise)

SpecOverlap == Init /\ [][NextOverlap]_vars

(***************************************************************************)
(* The sorters on their own: a pair of values of a column type is drawn,   *)
(* and the sorter of that type is applied to it in both orders.            *)
(***************************************************************************)
\* The largest magnitude of the numbers compared.
MaxNumber == 3

\* "", "A", "a", "B", "b", "Z", "[", "ab", "AB", "aC", and beyond ASCII
\* U+00C0 and U+00E0 (A with grave, capital and small), U+0130 (capital I with
\* dot above) and its lower case, "i" followed by U+0307
TextValues ==
    { <<>>, <<65>>, <<97>>, <<66>>, <<98>>, <<90>>, <<91>>,
      <<97, 98>>, <<65, 66>>, <<97, 67>>,
      <<192>>, <<224>>, <<304>>, <<105, 775>> }

NumberValues == (0 - MaxNumber)..MaxNumber

\* The column types, one of them without a sorter of its own.
ColumnTypes == {"text", "number", "html"}

ValuesOf(type) == IF type = "number" THEN NumberValues ELSE TextValues

InitSorters ==
    /\ o = [enabled |-> FALSE, column |-> Null, direction |-> Null]
    /\ ajaxEnabled = FALSE
    /\ columns = <<>>
    /\ rows = <<>>
    /\ headers = <<>>
    /\ handlers = 0
    /\ tableClass = FALSE
    /\ data = [sortColumn |-> Null, sortDirection |-> Null]
    /\ jQuery = "3.x"
    /\ pending = EmptyBag
    /\ phase = "constructed"
    /\ \E type \in ColumnTypes :
          \E a \in ValuesOf(type), b \in ValuesOf(type) :
              last = [op |-> "values", type |-> type, a |-> a, b |-> b, ab |-> 0, ba |-> 0]

\* column.sorter(a, b) and column.sorter(b, a)
compare ==
    /\ last.op = "values"
    /\ last' = [last EXCEPT
                  !.op = "compared",
                  !.ab = Sorter(SorterFor(last.type), last.a, last.b),
                  !.ba = Sorter(SorterFor(last.type), last.b, last.a)]
    /\ UNCHANGED <<o, ajaxEnabled, columns, rows, headers, handlers, tableClass, data,
                   jQuery, pending, phase>>

NextSorters == compare

SpecSorters == InitSorters /\ [][NextSorters]_vars

(***************************************************************************)
(* The properties of the component.                                        *)
(***************************************************************************)
\* The columns whose direction is not null.
DirectedColumns == {k \in 1..Len(columns) : columns[k].direction # Null}

\* The record of a call of _sort; of the step in which the refresh of a sort
\* completed, predraw and draw having run; and of the step in which the
\* callback of a sort ran.  They are one step when then() is not deferred.
IsSortCall(l) == l.op \in {"sort", "click"}
IsSortResolution(l) == l.op \in {"complete", "resolve"} /\ l.sorter # NoSorter
IsSortCompletion(l) == l.op \in {"complete", "callback"} /\ l.sorter # NoSorter

\* The names of the events an operation raised.
EventNames(l) == {l.events[i].name : i \in 1..Len(l.events)}

\* C1: a sort call that a change.ft.sorting listener cancels leaves the row
\* order, SortConfig, every column's direction, the headers and the request data
\* as they were, requests no refresh, raises no changed.ft.sorting, and its
\* promise is resolved.
C1_CancelledSortChangesNothing ==
    [][ (IsSortCall(last') /\ last'.cancelled) =>
          /\ rows' = rows
          /\ o' = o
          /\ columns' = columns
          /\ headers' = headers
          /\ data' = data
          /\ pending' = pending
          /\ last'.outcome = "resolved"
          /\ EventNames(last') = {"change.ft.sorting"} ]_vars

\* A cancelled call whose sorter differs from the configuration in force.
C1_Witness ==
    /\ IsSortCall(last)
    /\ last.cancelled
    /\ last.sorter = NewSorter(Col(2), DESC)
    /\ o.column = Col(1)
    /\ phase = "ready"

\* C2 as stated: in every reachable state, from column construction on, at most
\* one column has a direction that is not null.
C2_AtMostOneDirectedAlways == Cardinality(DirectedColumns) <= 1

\* C2, amended: once init has run on a table whose sorting is enabled, at most
\* one column has a direction that is not null, through every sort call
\* (cancelled and in flight included), destroy and reinit.
C2_AtMostOneDirectedOnceInitialized ==
    (phase # "constructed" /\ o.enabled) => Cardinality(DirectedColumns) <= 1

\* An in-flight sort completes after destroy and one column is directed.
C2_Witness ==
    /\ phase = "destroyed"
    /\ o.enabled
    /\ IsSortCompletion(last)
    /\ Cardinality(DirectedColumns) = 1

\* C3 as stated: after a sort call that was not cancelled and whose refresh has
\* completed, exactly one column has a direction that is not null, whatever the
\* column reference.
C3_ExactlyOneDirectedAfterSort ==
    IsSortCompletion(last) => Cardinality(DirectedColumns) = 1

\* C3, amended: after a sort call that was not cancelled and whose refresh has
\* completed, the directed columns are exactly SortConfig.column, with
\* SortConfig.direction: one column when the reference resolved, none when the
\* reference resolved to no column.
C3_DirectedIsSortConfigAfterSort ==
    IsSortCompletion(last) =>
        /\ DirectedColumns = {k \in 1..Len(columns) : Col(k) = o.column}
        /\ \A k \in DirectedColumns : columns[k].direction = o.direction
        /\ (o.column = Null) = (DirectedColumns = {})

\* A sort by a resolved column has completed after another column was directed.
C3_Witness ==
    /\ IsSortCompletion(last)
    /\ last.sorter.column = Col(2)
    /\ o.column = Col(2)
    /\ DirectedColumns = {2}

\* C4 as stated: with SortConfig.column resolved to no column (a sort by a
\* reference that matches no column, a refresh after an init that found no
\* column), no operation raises an error, with local and with remote data.
C4_NoErrorOnUnresolvedColumn ==
    (IsNullish(o.column) /\ last.op \in {"sort", "update"}) => last.outcome # "threw"

\* Values of a direction argument that are neither "ASC" nor "DESC".
InvalidDirections == {Null, Str("sideways"), Str("asc"), Num(1)}

\* C5: in every state, for every column reference and whatever the listeners
\* do, sort(column, d) with d neither "ASC" nor "DESC" has the outcome of
\* sort(column) and of sort(column, "ASC"): the same events with the same
\* sorter, the same SortConfig, column directions, rows and request data.
C5_InvalidDirectionSortsAscending ==
    \A column \in ColumnRefs, listener \in Listeners :
        LET omitted == sort(State, column, Undefined, listener)
        IN  /\ omitted = sort(State, column, ASC, listener)
            /\ \A d \in InvalidDirections : sort(State, column, d, listener) = omitted

\* A sort called with a direction that is not valid has committed "ASC" over "DESC".
C5_Witness ==
    /\ last.op = "sort"
    /\ last.normalized
    /\ last.outcome = "pending"
    /\ last.sorter.direction = ASC
    /\ o.direction = ASC
    /\ \E k \in DirectedColumns : columns[k].direction = DESC

\* rows.array holds the same rows in both sequences.
IsPermutation(a, b) ==
    /\ Len(a) = Len(b)
    /\ \A r \in RowIds : Cardinality({i \in 1..Len(a) : a[i] = r})
                         = Cardinality({i \in 1..Len(b) : b[i] = r})

\* comparator(r_i.value, r_j.value) for the column's sorter
Comparator(k, ri, rj) ==
    Sorter(columns[k].sorter, CellValue(ri, columns[k].index), CellValue(rj, columns[k].index))

\* C6: with local data and sorting enabled, when the refresh of a sort
\* completes under SortConfig (column C resolved, direction D), the rows are a
\* permutation of the rows before, and each adjacent pair compares <= 0 by C's
\* sorter when D is "ASC" and >= 0 when D is "DESC".
C6_RowsSortedAfterSort ==
    [][ (IsSortResolution(last') /\ o.enabled /\ ~ajaxEnabled /\ o.column # Null) =>
          /\ IsPermutation(rows', rows)
          /\ o.direction \in {ASC, DESC}
          /\ \A i \in 1..(Len(rows') - 1) :
                /\ o.direction = ASC =>
                      Comparator(o.column.n, rows'[i], rows'[i + 1]) <= 0
                /\ o.direction = DESC =>
                      Comparator(o.column.n, rows'[i], rows'[i + 1]) >= 0 ]_vars

\* The rows <<"bob", "Bob", "alice">> sorted ascending by name: "alice", "bob", "Bob".
C6_Witness ==
    /\ IsSortResolution(last)
    /\ o.enabled
    /\ ~ajaxEnabled
    /\ o.column = Col(1)
    /\ o.direction = ASC
    /\ rows = <<2, 3, 1>>

\* C7 as stated: when a sort is called again with the same column and direction
\* right after it completed, and its refresh completes again, the rows are in
\* the order the first sort left them in, the rows that compare equal included.
C7_SameSortTwiceSameOrder ==
    [][ (IsSortResolution(last') /\ last'.repeat) => rows' = rows ]_vars

\* The listeners left the sorter of the call as _sort created it.
Unmodified(l) == l.sorter.column.t \in {"column", "null"}

\* "ASC" unless the direction is "DESC".
Normalized(direction) == IF direction = DESC THEN DESC ELSE ASC

\* C8: with remote data and sorting enabled no step reorders the rows, and a
\* sort call that is not cancelled and whose column resolves builds a request
\* whose sortColumn is the name of the column it committed and whose
\* sortDirection is the direction it committed: those of its sorter, which are
\* the resolved column argument and the normalized direction argument when no
\* listener assigns the sorter.
C8_RemoteSortFillsRequest ==
    [][ (ajaxEnabled /\ o.enabled) =>
          /\ rows' = rows
          /\ (IsSortCall(last') /\ ~last'.cancelled /\ last'.outcome = "pending") =>
                /\ o'.column = get(State, last'.sorter.column)
                /\ o'.direction = Normalized(last'.sorter.direction)
                /\ o'.column.t = "column"
                /\ data'.sortColumn = Str(columns[o'.column.n].name)
                /\ data'.sortDirection = o'.direction
          /\ (last'.op = "sort" /\ last'.outcome = "pending" /\ Unmodified(last')) =>
                \A column \in ColumnRefs, direction \in DirectionArgs \cup {Undefined, ASC} :
                    Sort(column, direction, "pass") =>
                        /\ \E k \in 1..Len(columns) :
                              /\ columns[k].name = column.s \/ Col(k) = column
                              /\ data'.sortColumn = Str(columns[k].name)
                        /\ data'.sortDirection = Normalized(direction) ]_vars

\* sort("price", "DESC") with remote data: the rows are not in descending order
\* of price and the request carries sortColumn "price", sortDirection "DESC".
C8_Witness ==
    /\ ajaxEnabled
    /\ o.enabled
    /\ last.op = "sort"
    /\ last.outcome = "pending"
    /\ last.sorter = NewSorter(Col(2), DESC)
    /\ data = [sortColumn |-> Str("price"), sortDirection |-> DESC]
    /\ rows = <<3, 1, 2>>

\* C9: a click on a sortable header requests the column of that header, "ASC"
\* when the header is unmarked, "DESC" when it is marked ascending and "ASC"
\* when it is marked descending; and when the refresh of a click's sort
\* completes, the sorter being the one the click built, the header is marked
\* with the requested direction and with no other, so that the next click on it
\* requests the opposite direction and the header is never unmarked again.
C9_ClickToggles ==
    [][ /\ (last'.op = "click" /\ Unmodified(last')) =>
              LET header == headers[last'.header]
                  requested == last'.sorter.direction
              IN  /\ header.sortable
                  /\ last'.sorter.column = Col(last'.header)
                  /\ (~header.asc /\ ~header.desc) => requested = ASC
                  /\ (header.asc /\ ~header.desc) => requested = DESC
                  /\ header.desc => requested = ASC
        /\ (/\ last.op = "click"
            /\ last.outcome = "pending"
            /\ Unmodified(last)
            /\ IsSortResolution(last')) =>
              /\ headers'[last.header].asc = (last.sorter.direction = ASC)
              /\ headers'[last.header].desc = (last.sorter.direction = DESC) ]_vars

\* The third click: on a header marked descending, requesting "ASC".
C9_Witness ==
    /\ last.op = "click"
    /\ last.outcome = "pending"
    /\ headers[last.header].desc
    /\ ~headers[last.header].asc
    /\ last.sorter = NewSorter(Col(last.header), ASC)
    /\ o.direction = ASC

\* The promise of a sort's refresh.
SortPromise(sorter) == SetToBag({Promise("sort", sorter, "awaited")})

\* C10 as stated: every sort call that is not cancelled raises
\* change.ft.sorting with its sorter, then commits SortConfig from that sorter,
\* then requests the refresh and is left awaiting it (the request data, when
\* remote, already holding the committed direction), the column directions
\* left alone; the completion of that refresh sets the column directions from
\* SortConfig and then raises changed.ft.sorting, once, with the sorter of
\* that call, its listeners seeing the rows of the completed refresh and the
\* updated directions; changed.ft.sorting is raised at no other time.
C10_NotificationOrder ==
    [][ /\ (IsSortCall(last') /\ ~last'.cancelled) =>
              /\ Len(last'.events) = 1
              /\ last'.events[1].name = "change.ft.sorting"
              /\ last'.events[1].sorter = last'.sorter
              /\ o'.column = get(State, last'.sorter.column)
              /\ o'.direction = Normalized(last'.sorter.direction)
              /\ columns' = columns
              /\ last'.outcome = "pending"
              /\ pending' = pending (+) SortPromise(last'.sorter)
              /\ (ajaxEnabled /\ o.enabled) =>
                    data'.sortDirection = o'.direction
        /\ IsSortCompletion(last') =>
              /\ Len(last'.events) = 1
              /\ last'.events[1].name = "changed.ft.sorting"
              /\ last'.events[1].sorter = last'.sorter
              /\ \E stage \in {"awaited", "resolved"} :
                    pending = pending' (+) SetToBag({Promise("sort", last'.sorter, stage)})
              /\ \A k \in 1..Len(columns) :
                    columns'[k].direction = IF Col(k) = o.column THEN o.direction ELSE Null
              /\ last'.events[1].directions = [k \in 1..Len(columns) |-> columns'[k].direction]
              /\ last'.events[1].rows = rows'
        /\ "changed.ft.sorting" \in EventNames(last') => IsSortCompletion(last') ]_vars

\* C11 as stated: whatever the listeners of change.ft.sorting do other than
\* cancelling, a sort(column, direction) that is not cancelled commits the
\* column resolved from the caller's argument and the caller's normalized
\* direction.
C11_CommitsCallerArguments ==
    [][ \A column \in ColumnRefs, direction \in DirectionArgs, listener \in Listeners :
          (Sort(column, direction, listener) /\ ~last'.cancelled) =>
              /\ o'.column = get(State, column)
              /\ o'.direction = Normalized(direction) ]_vars

\* C11, amended: the sorter is handed to the listeners by reference and read
\* again after them, so a sort that is not cancelled commits the column resolved
\* from the sorter's column and the normalized sorter's direction as the
\* listeners leave them: the caller's resolved column and normalized direction
\* when no listener assigns the sorter, what the listener assigned otherwise.
C11_CommitsSorterAsListenersLeaveIt ==
    [][ /\ (IsSortCall(last') /\ ~last'.cancelled) =>
              /\ o'.column = get(State, last'.sorter.column)
              /\ o'.direction = Normalized(last'.sorter.direction)
        /\ (last'.op = "sort" /\ ~last'.cancelled /\ Unmodified(last')) =>
              \A column \in ColumnRefs, direction \in DirectionArgs :
                  Sort(column, direction, "pass") =>
                      /\ last'.sorter = NewSorter(get(State, column), Normalized(direction))
                      /\ o'.column = get(State, column)
                      /\ o'.direction = Normalized(direction)
        /\ (last'.op = "sort" /\ ~last'.cancelled /\ ~Unmodified(last')) =>
              /\ last'.sorter = ModifiedSorter
              /\ o'.column = get(State, ModifiedSorter.column)
              /\ o'.direction = Normalized(ModifiedSorter.direction)
              /\ o'.column # Null ]_vars

\* A sort by "price" whose listener assigned the sorter the column "note" and
\* the direction "sideways" has committed the column note, ascending.
C11_Witness ==
    /\ last.op = "sort"
    /\ last.outcome = "pending"
    /\ last.sorter = ModifiedSorter
    /\ o.column = Col(3)
    /\ o.direction = ASC
    /\ DirectedColumns = {2}

\* The column the options select when init or reinit runs: the configured
\* column when it resolves, else the first column marked sorted, else none.
StartingColumn ==
    LET configured == get(State, o.column)
        marked == {k \in 1..Len(columns) : columns[k].sorted}
    IN  IF configured # Null THEN configured
        ELSE IF marked # {} THEN Col(CHOOSE k \in marked : \A j \in marked : k <= j)
        ELSE Null

\* Its direction: options.sorting.direction when not null, else the column's own
\* direction when not null, else "ASC"; null when there is no column.
StartingDirection ==
    IF StartingColumn = Null THEN Null
    ELSE IF ~IsNullish(o.direction) THEN o.direction
    ELSE IF ~IsNullish(columns[StartingColumn.n].direction)
         THEN columns[StartingColumn.n].direction
    ELSE ASC

\* C12: when init or reinit runs with sorting enabled, SortConfig.column
\* becomes the configured column if it resolves, otherwise the first column
\* marked sorted, otherwise none; SortConfig.direction becomes the configured
\* direction if not null, else the column's own direction if not null, else
\* "ASC", and null when no column is resolved; afterwards the resolved column's
\* direction is SortConfig.direction and every other column's direction is null.
C12_InitialSortResolution ==
    [][ (last'.op \in {"init", "reinit"} /\ o.enabled) =>
          /\ o'.column = StartingColumn
          /\ o'.direction = StartingDirection
          /\ (o'.column = Null) => (o'.direction = Null)
          /\ \A k \in 1..Len(columns) :
                columns'[k].direction = IF Col(k) = o'.column THEN o'.direction ELSE Null ]_vars

\* init found no column named "nosuch", fell back to "price", which is marked
\* sorted and declares "DESC", and gave it the configured direction.
C12_Witness ==
    /\ last.op = "init"
    /\ o.enabled
    /\ o.column = Col(2)
    /\ columns[2].sorted
    /\ o.direction = Str("sideways")
    /\ [k \in 1..Len(columns) |-> columns[k].direction] = <<Null, Str("sideways"), Null>>

\* The values a direction may take: "ASC", "DESC" or null.
DirectionDomain == {ASC, DESC, Null}

\* C13 as stated: SortConfig.direction and every column's direction are "ASC",
\* "DESC" or null, for any configured direction and any direction a column
\* declares; stated here of the states of an enabled table from init on.
C13_DirectionsInDomain ==
    (phase # "constructed" /\ o.enabled) =>
        /\ o.direction \in DirectionDomain
        /\ \A k \in 1..Len(columns) : columns[k].direction \in DirectionDomain

\* The header cells that carry footable-asc or footable-desc.
MarkedHeaders == {k \in 1..Len(headers) : headers[k].asc \/ headers[k].desc}

\* C14 as stated: when the refresh of a sort by a column that resolves has
\* completed and draw has run, on an enabled table that is not destroyed,
\* exactly one header cell carries footable-asc or footable-desc: the header of
\* SortConfig.column, with the class of SortConfig.direction and no other.
C14_ExactlyOneHeaderMarked ==
    (IsSortCompletion(last) /\ phase = "ready" /\ o.enabled /\ o.column # Null) =>
        /\ MarkedHeaders = {o.column.n}
        /\ headers[o.column.n].asc = (o.direction = ASC)
        /\ headers[o.column.n].desc = (o.direction = DESC)

\* C15 as stated: after destroy on an enabled table that init has mounted,
\* in any state, the click handler is detached, no header cell holds a sort
\* icon and no header cell carries footable-asc or footable-desc.
C15_DestroyRestoresHeaders ==
    (last.op = "destroy" /\ o.enabled) =>
        /\ handlers = 0
        /\ \A k \in 1..Len(headers) : headers[k].icons = <<>>
        /\ MarkedHeaders = {}

\* The columns some user-supplied options name, and those marked sorted.
Selectable ==
    {get(State, sorting.column) : sorting \in ConfigOptions}
        \cup {Col(k) : k \in {j \in 1..Len(columns) : columns[j].sorted}}

\* C16 as stated: reinit rebuilds the table from an empty SortConfig, so after
\* reinit on an enabled table SortConfig.column is a column that the
\* user-supplied options or a sorted flag select, or none: a sort applied before
\* the reinit, and completed, is no longer the active sort.
C16_ReinitForgetsEarlierSort ==
    (last.op = "reinit" /\ o.enabled /\ pending = EmptyBag) =>
        (o.column = Null \/ o.column \in Selectable)

\* The direction of every column.
Directions == [k \in 1..Len(columns) |-> columns[k].direction]

\* C17 as stated: while sorting.enabled is false, every operation leaves
\* SortConfig.column, SortConfig.direction, every column's direction, the row
\* order, the request data and the classes of the header cells unchanged.
C17_DisabledChangesNothing ==
    [][ (o.enabled = FALSE) =>
          /\ o' = o
          /\ Directions' = Directions
          /\ rows' = rows
          /\ data' = data
          /\ headers' = headers ]_vars

\* -1, 0 or 1 as x is negative, zero or positive.
Sign(x) == IF x < 0 THEN -1 ELSE IF x = 0 THEN 0 ELSE 1

\* C18 as stated: each sorter, on every pair of values of its type, returns
\* -1, 0 or 1, the number sorter the sign of a - b, and sorter(a, b) is the
\* negation of sorter(b, a).
C18_SortersReturnSign ==
    (last.op = "compared") =>
        /\ last.ab \in {-1, 0, 1}
        /\ (last.type = "number") => (last.ab = Sign(last.a - last.b))
        /\ last.ab = 0 - last.ba

\* C18, amended: the text sorter, also used for a type without a sorter of its
\* own, returns -1, 0 or 1; the number sorter returns the difference a - b,
\* which is negative, zero or positive as a is less than, equal to or greater
\* than b and is not limited to -1, 0, 1; for both, sorter(a, b) is the negation
\* of sorter(b, a).
C18_SortersReturnOrderingValue ==
    (last.op = "compared") =>
        /\ (last.type # "number") => (last.ab \in {-1, 0, 1})
        /\ (last.type = "number") =>
              /\ last.ab = last.a - last.b
              /\ Sign(last.ab) = (IF last.a < last.b THEN -1 ELSE IF last.a = last.b THEN 0 ELSE 1)
        /\ last.ab = 0 - last.ba

\* The number sorter applied to 3 and 1 returned 2, and -2 the other way round.
C18_Witness ==
    /\ last.op = "compared"
    /\ last.type = "number"
    /\ last.a = 3
    /\ last.b = 1
    /\ last.ab = 2
    /\ last.ba = -2

\* C19: a sort that is called, and not cancelled, while the refresh of an
\* earlier sort is awaited raises its change.ft.sorting in the call itself, the
\* earlier refresh still awaited, and commits SortConfig; from then on every
\* completion of a refresh, of the earlier sort or of the later one, in either
\* order, leaves SortConfig that of the later call and sets the column
\* directions from it: the directed column is the later call's, with its
\* direction, and no completion brings back the earlier column or direction.
C19_OverlappingSortsConverge ==
    [][ /\ (IsSortCall(last') /\ ~last'.cancelled /\ SortInFlight) =>
              /\ last'.events[1].name = "change.ft.sorting"
              /\ last'.events[1].sorter = last'.sorter
              /\ o'.column = get(State, last'.sorter.column)
              /\ o'.direction = Normalized(last'.sorter.direction)
              /\ last'.outcome = "pending" =>
                    /\ pending' = pending (+) SortPromise(last'.sorter)
                    /\ last'.later = last'.sorter
        /\ (IsSortCompletion(last') /\ last'.later # NoSorter) =>
              /\ o'.column = get(State, last'.later.column)
              /\ o'.direction = Normalized(last'.later.direction)
              /\ Directions' = [k \in 1..Len(columns) |->
                                  IF Col(k) = o'.column THEN o'.direction ELSE Null]
              /\ Cardinality(DirectedColumns') <= 1 ]_vars

\* A sort by price was clicked and then sort("name", "DESC") was called before
\* it completed; the refresh of the later sort completed first, that of the
\* earlier one last, and the directed column is name, descending.
C19_Witness ==
    /\ IsSortCompletion(last)
    /\ pending = EmptyBag
    /\ last.later = NewSorter(Col(1), DESC)
    /\ last.sorter = NewSorter(Col(2), ASC)
    /\ o.column = Col(1)
    /\ o.direction = DESC
    /\ Directions = <<DESC, Null, Null>>

\* C20 as stated: on an enabled table that init has run on, whenever the
\* refresh of no sort is awaited, a column has a direction that is not null if
\* and only if it is SortConfig.column, and its direction is then
\* SortConfig.direction.
C20_QuiescentConsistency ==
    (o.enabled /\ phase = "ready" /\ ~SortInFlight) =>
        Directions = [k \in 1..Len(columns) |->
                        IF Col(k) = o.column THEN o.direction ELSE Null]

====
